---- MODULE Spec2Model ----
(***************************************************************************)
(* Menu recommendation worker (推荐算法.js): RecommendationEngine,          *)
(* NutritionCalculator, ShoppingListGenerator and the /api/recommend       *)
(* handler, as a state machine.                                            *)
(*                                                                         *)
(* Source identifiers are Chinese; the module uses these renderings:       *)
(*   菜品分类 categories   主菜 main   配菜 side   汤品 soup   主食 staple  *)
(*   适用季节 seasons      春季 spring 夏季 summer 秋季 autumn 冬季 winter  *)
(*   难度等级 difficulty   初级 beginner 中级 intermediate 高级 advanced    *)
(*   不限 unlimited        准备时间 prepTime    烹饪时间 cookTime           *)
(*   标准份量 servings     基准人数 basePeople  食材列表 ingredients        *)
(*   食材名称 name  用量 amount  单位 unit  调整用量 adjustedAmount         *)
(*   调整后食材 adjustedIngredients   营养成分 nutrition                    *)
(*   热量 calories 蛋白质 protein 碳水化合物 carbs 脂肪 fat 纤维素 fiber    *)
(*   用餐人数 people  季节 season  特殊需求 specialNeeds  口味偏好 tastes   *)
(* An optional field is a sequence: <<>> when absent, <<v>> when present.  *)
(***************************************************************************)
EXTENDS Integers, Sequences, FiniteSets, TLC

(***************************************************************************)
(* JavaScript Number arithmetic (IEEE-754 binary64), as used by people /   *)
(* 基准人数, 用量 * ratio * 10, Math.round and the nutrition sums.          *)
(* A natural number of any size is a sequence of limbs, least significant  *)
(* first, each in 0..LimbBase-1, with no zero limb on top.  A finite       *)
(* non-negative double is [m |-> limbs of a MantissaBits-bit natural,      *)
(* e |-> exponent], of value m * 2^e; zero has m = <<>>.  Every operation  *)
(* rounds its exact result to nearest, ties to even.                       *)
(***************************************************************************)
MantissaBits == 53

LimbBits == 13

Pow2(k) == 2 ^ k

LimbBase == Pow2(LimbBits)

\* limb i of n, zero outside n
Limb(n, i) == IF i >= 1 /\ i <= Len(n) THEN n[i] ELSE 0

\* n without its zero limbs on top
Trim(n) ==
  LET used == {i \in 1..Len(n) : n[i] # 0}
      top  == IF used = {} THEN 0 ELSE CHOOSE i \in used : \A j \in used : j <= i
  IN SubSeq(n, 1, top)

\* number of bits of a limb value v
LimbLen(v) == CHOOSE k \in 0..LimbBits : v < Pow2(k) /\ (k = 0 \/ v >= Pow2(k - 1))

\* number of bits of the trimmed natural n
BitLen(n) == IF n = <<>> THEN 0 ELSE (Len(n) - 1) * LimbBits + LimbLen(n[Len(n)])

\* bit j (from 0) of n
Bit(n, j) == (Limb(n, (j \div LimbBits) + 1) \div Pow2(j % LimbBits)) % 2

\* whether n mod 2^s is not zero
LowBits(n, s) ==
  \/ \E i \in 1..(s \div LimbBits) : Limb(n, i) # 0
  \/ Limb(n, (s \div LimbBits) + 1) % Pow2(s % LimbBits) # 0

\* floor(n / 2^s)
ShiftRight(n, s) ==
  LET a == s \div LimbBits
      r == s % LimbBits
  IN Trim([i \in 1..(IF Len(n) > a THEN Len(n) - a ELSE 0) |->
             (Limb(n, i + a) \div Pow2(r))
             + (Limb(n, i + a + 1) % Pow2(r)) * Pow2(LimbBits - r)])

\* n * 2^s
ShiftLeft(n, s) ==
  LET a == s \div LimbBits
      r == s % LimbBits
  IN Trim([i \in 1..(Len(n) + a + 1) |->
             (Limb(n, i - a) % Pow2(LimbBits - r)) * Pow2(r)
             + (Limb(n, i - a - 1) \div Pow2(LimbBits - r))])

\* n + 1
Inc(n) ==
  LET ripple(i) == \A j \in 1..(i - 1) : Limb(n, j) = LimbBase - 1
  IN Trim([i \in 1..(Len(n) + 1) |->
             IF ripple(i) THEN (Limb(n, i) + 1) % LimbBase ELSE Limb(n, i)])

RECURSIVE FromNatLimbs(_)
FromNatLimbs(v) ==
  IF v = 0 THEN <<>> ELSE <<v % LimbBase>> \o FromNatLimbs(v \div LimbBase)

RECURSIVE ToNat(_)
ToNat(n) == IF n = <<>> THEN 0 ELSE n[1] + LimbBase * ToNat(Tail(n))

\* n * k + carry for a small natural k
RECURSIVE MulSmall(_, _, _)
MulSmall(n, k, carry) ==
  IF n = <<>> THEN FromNatLimbs(carry)
  ELSE LET t == n[1] * k + carry
       IN <<t % LimbBase>> \o MulSmall(Tail(n), k, t \div LimbBase)

\* <<floor(n / d), n mod d>> for a small natural d, from the top limb down
RECURSIVE DivSmall(_, _, _, _)
DivSmall(n, d, i, rem) ==
  IF i = 0 THEN <<<<>>, rem>>
  ELSE LET t    == rem * LimbBase + n[i]
           rest == DivSmall(n, d, i - 1, t % d)
       IN <<Append(rest[1], t \div d), rest[2]>>

\* a + b + carry
RECURSIVE AddLimbs(_, _, _)
AddLimbs(a, b, carry) ==
  IF a = <<>> /\ b = <<>> THEN FromNatLimbs(carry)
  ELSE LET t == Limb(a, 1) + Limb(b, 1) + carry
       IN <<t % LimbBase>>
          \o AddLimbs(IF a = <<>> THEN a ELSE Tail(a), IF b = <<>> THEN b ELSE Tail(b),
                      t \div LimbBase)

\* the double nearest to n * 2^e (plus a non-zero part below 2^e when sticky)
RoundToDouble(n, e, sticky) ==
  LET t   == Trim(n)
      len == BitLen(t)
      s   == len - MantissaBits
  IN IF len = 0 THEN [m |-> <<>>, e |-> 0]
     ELSE IF s <= 0 THEN [m |-> ShiftLeft(t, 0 - s), e |-> e + s]
     ELSE LET keep == ShiftRight(t, s)
              half == Bit(t, s - 1) = 1
              rest == sticky \/ LowBits(t, s - 1)
              up   == half /\ (rest \/ Bit(keep, 0) = 1)
              r    == IF up THEN Inc(keep) ELSE keep
          IN IF BitLen(r) > MantissaBits
               THEN [m |-> ShiftRight(r, 1), e |-> e + s + 1]
               ELSE [m |-> r, e |-> e + s]

\* the double of a natural number below 2^31
FromNat(v) == RoundToDouble(FromNatLimbs(v), 0, FALSE)

\* binary64 keeps its largest exponent field (2047, here 2047 - 1075) for the
\* values that are no finite number: Infinity with a zero fraction, NaN with
\* a non-zero one
SpecialExponent == 972

Infinity == [m |-> <<>>, e |-> SpecialExponent]

NaN == [m |-> <<1>>, e |-> SpecialExponent]

IsFinite(x) == x.e # SpecialExponent

IsNaN(x) == x.e = SpecialExponent /\ x.m # <<>>

\* x * k for a double x >= 0 and an integer-valued k >= 0 (JS: x * k)
FMulNat(x, k) ==
  IF IsNaN(x) THEN NaN
  ELSE IF ~IsFinite(x) THEN (IF k = 0 THEN NaN ELSE Infinity)
  ELSE RoundToDouble(MulSmall(x.m, k, 0), x.e, FALSE)

\* x / d for a double x >= 0 and an integer-valued d >= 0 (JS: x / d)
FDivNat(x, d) ==
  IF IsNaN(x) THEN NaN
  ELSE IF ~IsFinite(x) THEN Infinity
  ELSE IF d = 0 THEN (IF x.m = <<>> THEN NaN ELSE Infinity)
  ELSE LET wide == ShiftLeft(x.m, 2 * LimbBits)
           qr   == DivSmall(wide, d, Len(wide), 0)
       IN RoundToDouble(qr[1], x.e - 2 * LimbBits, qr[2] # 0)

\* x + y for doubles >= 0 (JS: x + y)
FAdd(x, y) ==
  IF IsNaN(x) \/ IsNaN(y) THEN NaN
  ELSE IF ~IsFinite(x) \/ ~IsFinite(y) THEN Infinity
  ELSE IF x.m = <<>> THEN y
  ELSE IF y.m = <<>> THEN x
  ELSE LET lo == IF x.e < y.e THEN x.e ELSE y.e
       IN RoundToDouble(AddLimbs(ShiftLeft(x.m, x.e - lo), ShiftLeft(y.m, y.e - lo), 0),
                        lo, FALSE)

\* Math.round(x) = floor(x + 1/2) as an integer, for a finite 0 <= x < 2^31
MathRound(x) ==
  IF x.m = <<>> THEN 0
  ELSE IF x.e >= 0 THEN ToNat(ShiftLeft(x.m, x.e))
  ELSE ToNat(ShiftRight(x.m, 0 - x.e)) + Bit(x.m, (0 - x.e) - 1)

\* Math.round(x) as the number JS returns: NaN and Infinity round to themselves
Round(x) == IF IsFinite(x) THEN FromNat(MathRound(x)) ELSE x

\* a < b for trimmed naturals
NatLess(a, b) ==
  \/ Len(a) < Len(b)
  \/ /\ Len(a) = Len(b)
     /\ \E i \in 1..Len(a) : a[i] < b[i] /\ \A j \in (i + 1)..Len(a) : a[j] = b[j]

\* x < y for doubles (JS: x < y)
FLess(x, y) ==
  IF IsNaN(x) \/ IsNaN(y) \/ ~IsFinite(x) THEN FALSE
  ELSE IF ~IsFinite(y) THEN TRUE
  ELSE IF y.m = <<>> THEN FALSE
  ELSE IF x.m = <<>> THEN TRUE
  ELSE x.e < y.e \/ (x.e = y.e /\ NatLess(x.m, y.m))

\* the double a decimal literal d.d denotes, from its tenths (0.7 from 7)
Tenths(n) == FDivNat(FromNat(n), 10)

(***************************************************************************)
(* Data.                                                                   *)
(***************************************************************************)
None == <<>>

Some(v) == <<v>>

Has(o) == o # <<>>

Get(o) == o[1]

\* the one element of a set of one: {F(v) : v \in {x}} is F of the value of x
The(S) == CHOOSE v \in S : TRUE

\* the keys of `categories` / `selected` in recommend, in insertion order
MenuCategories == <<"main", "side", "soup", "staple">>

\* 用餐人数 accepted by handleRecommend's validation
MinPeople == 1

MaxPeople == 20

\* filteredRecipes.length < 10 in recommend
RelaxThreshold == 10

\* 烹饪时间 when the request names none: parseInt(...) || 120
DefaultCookTime == 120

\* ingredient names: one token per character, its pinyin and tone
ChunSun == <<"chun1", "sun3">>                  \* 春笋

ZhuLiJiRou == <<"zhu1", "li3", "ji3", "rou4">>  \* 猪里脊肉

Yan == <<"yan2">>                               \* 盐

DouFu == <<"dou4", "fu3">>                      \* 豆腐

JiDan == <<"ji1", "dan4">>                      \* 鸡蛋

XiaRen == <<"xia1", "ren2">>                    \* 虾仁

DaMi == <<"da4", "mi3">>                        \* 大米

QingCai == <<"qing1", "cai4">>                  \* 青菜

XiangGu == <<"xiang1", "gu1">>                  \* 香菇

QingJiao == <<"qing1", "jiao1">>                \* 青椒

HuangGua == <<"huang2", "gua1">>                \* 黄瓜

QieZi == <<"qie2", "zi5">>                      \* 茄子

TuDou == <<"tu3", "dou4">>                      \* 土豆

HaoYou == <<"hao2", "you2">>                    \* 蚝油

Tang == <<"tang2">>                             \* 糖

Ingredient(name, amount, unit) == [name |-> name, amount |-> amount, unit |-> unit]

Nutrition(calories, protein, carbs, fat, fiber) ==
  [calories |-> calories, protein |-> protein, carbs |-> carbs, fat |-> fat,
   fiber |-> fiber]

\* 标准份量: 基准人数, 食材列表 and, where the recipe has one, 调味料 seasonings
Servings(basePeople, ingredients) ==
  [basePeople |-> Some(basePeople), ingredients |-> ingredients, seasonings |-> None]

\* a 标准份量 that names no 基准人数
ServingsWithoutBase(ingredients) ==
  [basePeople |-> None, ingredients |-> ingredients, seasonings |-> None]

\* a 标准份量 with 调味料
SeasonedServings(basePeople, ingredients, seasonings) ==
  [basePeople |-> Some(basePeople), ingredients |-> ingredients,
   seasonings |-> Some(seasonings)]

Recipe(categories, seasons, difficulty, prepTime, cookTime, servings, nutrition, tags) ==
  [id |-> 0, categories |-> categories, seasons |-> seasons, difficulty |-> difficulty,
   prepTime |-> prepTime, cookTime |-> cookTime, servings |-> servings,
   nutrition |-> nutrition, tags |-> tags]

\* a catalog: the recipes, each with its position as its 菜品标识
WithIds(recipes) == [i \in 1..Len(recipes) |-> [recipes[i] EXCEPT !.id = i]]

Params(people, season, specialNeeds, cookTime, difficulty) ==
  [people |-> people, season |-> season, specialNeeds |-> specialNeeds,
   cookTime |-> cookTime, difficulty |-> difficulty]

(***************************************************************************)
(* RecommendationEngine.                                                   *)
(***************************************************************************)
\* the predicate of recipes.filter in filterRecipes
PassesFilter(recipe, params) ==
  /\ ~(/\ params.season # "unlimited"
       /\ Has(recipe.seasons)
       /\ params.season \notin Get(recipe.seasons))
  /\ ~(/\ params.difficulty # "unlimited"
       /\ Has(recipe.difficulty)
       /\ Get(recipe.difficulty) # params.difficulty)
  /\ ~(/\ params.cookTime # 0
       /\ recipe.cookTime # 0
       /\ recipe.cookTime > params.cookTime)
  \* 特殊需求: the branch is empty, every recipe passes it

filterRecipes(recipes, params) ==
  LET Test(recipe) == PassesFilter(recipe, params)
  IN SelectSeq(recipes, Test)

\* r.菜品分类 && r.菜品分类.includes(category)
InCategory(recipe, category) ==
  Has(recipe.categories) /\ category \in Get(recipe.categories)

Min(a, b) == IF a < b THEN a ELSE b

Injections(k, n) ==
  {f \in [1..k -> 1..n] : \A i, j \in 1..k : i # j => f[i] # f[j]}

\* variants of randomSelect: a draw with replacement, and a draw of one more
DrawsWithRepeats(recipes, count) ==
  LET k == Min(count, Len(recipes))
  IN {[i \in 1..k |-> recipes[f[i]]] : f \in [1..k -> 1..Len(recipes)]}

DrawsOneMore(recipes, count) ==
  LET k == Min(count + 1, Len(recipes))
  IN {[i \in 1..k |-> recipes[f[i]]] : f \in Injections(k, Len(recipes))}

\* the draws shuffled.slice(0, Math.min(count, shuffled.length)) can return:
\* shuffled is some permutation of recipes, so its first k elements are k
\* elements of recipes at distinct positions, in any order
randomSelect(recipes, count) ==
  LET k == Min(count, Len(recipes))
  IN {[i \in 1..k |-> recipes[f[i]]] : f \in Injections(k, Len(recipes))}

selectMainDishes(recipes, params) ==
  IF Len(recipes) = 0 THEN {<<>>}
  ELSE randomSelect(recipes, IF params.people >= 8 THEN 2 ELSE 1)

\* a variant of SideCount with its thresholds one lower
SideCountOffByOne(params) ==
  IF params.people < 4 THEN 1 ELSE IF params.people < 8 THEN 2 ELSE 3

\* count in selectSideDishes
SideCount(params) ==
  IF params.people <= 4 THEN 1 ELSE IF params.people <= 8 THEN 2 ELSE 3

selectSideDishes(recipes, params) ==
  IF Len(recipes) = 0 THEN {<<>>}
  ELSE randomSelect(recipes, SideCount(params))

selectSoups(recipes, params) ==
  IF Len(recipes) = 0 THEN {<<>>} ELSE randomSelect(recipes, 1)

selectStaples(recipes, params) ==
  IF Len(recipes) = 0 THEN {<<>>} ELSE randomSelect(recipes, 1)

\* people / recipe.标准份量.基准人数; a number divided by undefined is NaN
ServingsRatio(people, servings) ==
  IF Has(servings.basePeople)
    THEN FDivNat(FromNat(people), Get(servings.basePeople))
    ELSE NaN

\* 调整用量: Math.round(ingredient.用量 * ratio * 10) / 10
AdjustedAmount(amount, ratio) == FDivNat(Round(FMulNat(FMulNat(ratio, amount), 10)), 10)

\* the callback of recipes.map in adjustServings; an entry of the menu is
\* the returned object: the recipe's own fields and, when set, 调整后食材
AdjustRecipe(recipe, people) ==
  IF ~Has(recipe.servings) THEN [recipe |-> recipe, adjustedIngredients |-> None]
  ELSE LET servings == Get(recipe.servings)
           ratio    == ServingsRatio(people, servings)
       IN [recipe |-> recipe,
           adjustedIngredients |->
             IF Has(servings.ingredients)
               THEN LET list == Get(servings.ingredients)
                    IN Some([j \in 1..Len(list) |->
                              [name |-> list[j].name, amount |-> list[j].amount,
                               unit |-> list[j].unit,
                               adjustedAmount |-> AdjustedAmount(list[j].amount, ratio)]])
               ELSE None]

adjustServings(menu, people) ==
  [category \in DOMAIN menu |->
     [i \in 1..Len(menu[category]) |-> AdjustRecipe(menu[category][i], people)]]

\* a variant of NeedsRelaxation that includes the threshold
RelaxesAtThreshold(strict) == Len(strict) <= RelaxThreshold

\* whether recommend takes the branch that filters again
NeedsRelaxation(strict) == Len(strict) < RelaxThreshold

\* a variant of RelaxedParams that asks for the beginner's level
RelaxesToBeginner(params) == [params EXCEPT !.difficulty = "beginner"]

\* { ...params, 难度等级: '不限' }
RelaxedParams(params) == [params EXCEPT !.difficulty = "unlimited"]

\* filteredRecipes when recommend groups by category
FilteredRecipes(recipes, params) ==
  LET strict == filterRecipes(recipes, params)
  IN IF NeedsRelaxation(strict)
       THEN filterRecipes(recipes, RelaxedParams(params))
       ELSE strict

\* categories in recommend
Buckets(filtered) ==
  [category \in {MenuCategories[i] : i \in 1..Len(MenuCategories)} |->
     LET Test(recipe) == InCategory(recipe, category)
     IN SelectSeq(filtered, Test)]

\* the values `selected` can take in recommend
Selections(buckets, params) ==
  {[main |-> m, side |-> s, soup |-> u, staple |-> t] :
     m \in selectMainDishes(buckets.main, params),
     s \in selectSideDishes(buckets.side, params),
     u \in selectSoups(buckets.soup, params),
     t \in selectStaples(buckets.staple, params)}

(***************************************************************************)
(* NutritionCalculator.                                                    *)
(***************************************************************************)
\* Object.values(menu).flat()
Flat(m) == m.main \o m.side \o m.soup \o m.staple

NutrientNames == {"calories", "protein", "carbs", "fat", "fiber"}

\* dailyRecommendation in calculate
DailyCalories == 2000

DailyProtein == 60

DailyCarbs == 300

DailyFat == 67

DailyFiber == 25

dailyRecommendation ==
  [calories |-> DailyCalories, protein |-> DailyProtein, carbs |-> DailyCarbs,
   fat |-> DailyFat, fiber |-> DailyFiber]

\* a variant of ZeroTotals that starts every sum at one
OneTotals == [n \in NutrientNames |-> FromNat(1)]

ZeroTotals == [n \in NutrientNames |-> FromNat(0)]

\* a variant of NutritionRatio that does not scale
UnscaledRatio(recipe, people) == FromNat(1)

\* ratio in the forEach of calculate
NutritionRatio(recipe, people) ==
  IF Has(recipe.servings)
    THEN ServingsRatio(people, Get(recipe.servings))
    ELSE FromNat(1)

\* total after the forEach of calculate has visited entries[i..]
RECURSIVE SumNutrition(_, _, _, _)
SumNutrition(entries, people, i, total) ==
  IF i > Len(entries) THEN total
  ELSE LET recipe == entries[i].recipe
       IN SumNutrition(entries, people, i + 1,
            IF Has(recipe.nutrition)
              THEN [n \in NutrientNames |->
                      FAdd(total[n],
                           FMulNat(NutritionRatio(recipe, people), Get(recipe.nutrition)[n]))]
              ELSE total)

\* a variant of Percentage that rounds down
PercentageFloor(value, daily) ==
  LET scaled == FMulNat(FDivNat(value, daily), 100)
  IN IF ~IsFinite(scaled) \/ scaled.m = <<>> \/ scaled.e >= 0 THEN Round(scaled)
     ELSE FromNat(ToNat(ShiftRight(scaled.m, 0 - scaled.e)))

\* Math.round((value / dailyRecommendation[key]) * 100)
Percentage(value, daily) == Round(FMulNat(FDivNat(value, daily), 100))

\* a variant of Band whose boundaries belong to low and high
BandInclusive(value, daily, lowTenths, highTenths, inBand) ==
  LET ratio == FDivNat(value, daily)
  IN IF ~FLess(Tenths(lowTenths), ratio) THEN "low"
     ELSE IF ~FLess(ratio, Tenths(highTenths)) THEN "high"
     ELSE inBand

\* the label of one nutrient in evaluateNutrition: 偏低 low, 偏高 high
Band(value, daily, lowTenths, highTenths, inBand) ==
  LET ratio == FDivNat(value, daily)
  IN IF FLess(ratio, Tenths(lowTenths)) THEN "low"
     ELSE IF FLess(Tenths(highTenths), ratio) THEN "high"
     ELSE inBand

\* a variant of OverallVerdict for which two labels are enough
OverallAtTwo(calories, protein, fat) ==
  LET labels    == <<calories, protein, fat>>
      lowCount  == Cardinality({i \in 1..3 : labels[i] = "low"})
      highCount == Cardinality({i \in 1..3 : labels[i] = "high"})
  IN IF lowCount >= 2 THEN "deficient"
     ELSE IF highCount >= 2 THEN "excessive"
     ELSE IF protein = "sufficient" /\ fat = "adequate" THEN "balanced"
     ELSE "partiallyBalanced"

\* scores.总体: 营养不足 deficient, 营养过剩 excessive, 营养均衡 balanced,
\* 基本均衡 partiallyBalanced
OverallVerdict(calories, protein, fat) ==
  LET labels    == <<calories, protein, fat>>
      lowCount  == Cardinality({i \in 1..3 : labels[i] = "low"})
      highCount == Cardinality({i \in 1..3 : labels[i] = "high"})
  IN IF lowCount > 2 THEN "deficient"
     ELSE IF highCount > 2 THEN "excessive"
     ELSE IF protein = "sufficient" /\ fat = "adequate" THEN "balanced"
     ELSE "partiallyBalanced"

\* 适中 adequate, 充足 sufficient
evaluateNutrition(total, recommendation) ==
  The({[calories |-> calories, protein |-> protein, fat |-> fat,
        overall |-> OverallVerdict(calories, protein, fat)] :
         calories \in {Band(total.calories, recommendation.calories, 7, 13, "adequate")},
         protein \in {Band(total.protein, recommendation.protein, 8, 12, "sufficient")},
         fat \in {Band(total.fat, recommendation.fat, 7, 13, "adequate")}})

getNutritionSuggestions(evaluation) ==
  LET suggestions ==
        (IF evaluation.calories = "low" THEN <<"moreStapleOrProtein">>
         ELSE IF evaluation.calories = "high" THEN <<"lessOilOrStaple">>
         ELSE <<>>)
        \o (IF evaluation.protein = "low" THEN <<"moreMeatBeansEggsMilk">> ELSE <<>>)
        \o (IF evaluation.fat = "high" THEN <<"lessFriedOrFatty">> ELSE <<>>)
  IN IF Len(suggestions) = 0 THEN <<"balancedKeepItUp">> ELSE suggestions

\* what calculate returns
calculate(m, people) ==
  The({The({[total |-> total,
             percentages |-> [n \in NutrientNames |->
                                Percentage(total[n], dailyRecommendation[n])],
             evaluation |-> evaluation,
             suggestions |-> getNutritionSuggestions(evaluation)] :
              evaluation \in {evaluateNutrition(total, dailyRecommendation)}}) :
         total \in {SumNutrition(Flat(m), people, 1, ZeroTotals)}})

(***************************************************************************)
(* ShoppingListGenerator.                                                  *)
(***************************************************************************)
\* name.includes(keyword)
Includes(name, keyword) ==
  \E i \in 1..(Len(name) - Len(keyword) + 1) :
    SubSeq(name, i, i + Len(keyword) - 1) = keyword

\* categories in categorizeIngredient, in the order Object.entries visits them:
\* 蔬菜类 vegetable, 肉类 meat, 水产类 seafood, 调味品 condiment, 主食类 stapleFood
KeywordTables ==
  << [category |-> "vegetable",
      keywords |-> << <<"cai4">>, <<"sun3">>, <<"gu1">>, <<"jun1">>, <<"jiao1">>,
                      <<"gua1">>, <<"qie2">>, <<"dou4">>, <<"luo2", "bo5">>,
                      <<"hu2", "luo2", "bo5">>, <<"tu3", "dou4">>, <<"hong2", "shu3">> >>],
     [category |-> "meat",
      keywords |-> << <<"rou4">>, <<"pai2">>, <<"tui3">>, <<"ti2">>, <<"gan1">>,
                      <<"du3">>, <<"chang2">> >>],
     [category |-> "seafood",
      keywords |-> << <<"yu2">>, <<"xia1">>, <<"xie4">>, <<"bei4">>, <<"ge2">>,
                      <<"cheng1">>, <<"hao2">>, <<"shen1">> >>],
     [category |-> "condiment",
      keywords |-> << <<"you2">>, <<"yan2">>, <<"jiang4">>, <<"cu4">>, <<"tang2">>,
                      <<"liao4", "jiu3">>, <<"sheng1", "chou1">>, <<"lao3", "chou1">>,
                      <<"hao2", "you2">>, <<"xiang1", "you2">> >>],
     [category |-> "stapleFood",
      keywords |-> << <<"mi3">>, <<"mian4">>, <<"fen3">>, <<"fan4">>, <<"zhou1">>,
                      <<"man2", "tou5">>, <<"bao1", "zi5">>, <<"jiao3", "zi5">> >>] >>

\* the keys of `categories` in generate, in insertion order (其他 other)
ListCategories == <<"vegetable", "meat", "seafood", "condiment", "stapleFood", "other">>

ListCategorySet == {ListCategories[i] : i \in 1..Len(ListCategories)}

TableMatches(table, name) ==
  \E k \in 1..Len(table.keywords) : Includes(name, table.keywords[k])

\* a variant of categorizeIngredient in which the last matching table wins
categorizeByLastTable(name) ==
  LET hits == {t \in 1..Len(KeywordTables) : TableMatches(KeywordTables[t], name)}
  IN IF hits = {} THEN "other"
     ELSE KeywordTables[CHOOSE t \in hits : \A u \in hits : t >= u].category

categorizeIngredient(name) ==
  LET hits == {t \in 1..Len(KeywordTables) : TableMatches(KeywordTables[t], name)}
  IN IF hits = {} THEN "other"
     ELSE KeywordTables[CHOOSE t \in hits : \A u \in hits : t <= u].category

\* the characters of ingredient names in the order of the zh-CN collation
CollationOrder ==
  <<"cai4", "chun1", "da4", "dan4", "dou4", "fu3", "gu1", "gua1", "hao2", "huang2",
    "ji1", "ji3", "jiao1", "li3", "mi3", "qie2", "qing1", "ren2", "rou4", "sun3",
    "tang2", "tu3", "xia1", "xiang1", "yan2", "you2", "zhu1", "zi5">>

CharRank(c) == CHOOSE i \in 1..Len(CollationOrder) : CollationOrder[i] = c

\* a.localeCompare(b, 'zh-CN') < 0
RECURSIVE CollatesBefore(_, _)
CollatesBefore(a, b) ==
  IF b = <<>> THEN FALSE
  ELSE IF a = <<>> THEN TRUE
  ELSE IF a[1] # b[1] THEN CharRank(a[1]) < CharRank(b[1])
  ELSE CollatesBefore(Tail(a), Tail(b))

\* a variant of SortByName that leaves the entries as they were pushed
KeepsInsertionOrder(entries) == entries

\* entries.sort((a, b) => a.名称.localeCompare(b.名称, 'zh-CN')): a stable sort
RECURSIVE SortByName(_)
SortByName(entries) ==
  IF entries = <<>> THEN <<>>
  ELSE LET sorted == SortByName(SubSeq(entries, 1, Len(entries) - 1))
           last   == entries[Len(entries)]
           before == {i \in 1..Len(sorted) : ~CollatesBefore(last.name, sorted[i].name)}
           k      == Cardinality(before)
       IN SubSeq(sorted, 1, k) \o <<last>> \o SubSeq(sorted, k + 1, Len(sorted))

\* every 调整后食材 entry of the menu, in the order generate visits them
RECURSIVE AllAdjusted(_, _)
AllAdjusted(entries, i) ==
  IF i > Len(entries) THEN <<>>
  ELSE (IF Has(entries[i].adjustedIngredients)
          THEN Get(entries[i].adjustedIngredients) ELSE <<>>)
       \o AllAdjusted(entries, i + 1)

\* a variant of FindItem that never finds the key
ListsEachSeparately(items, name) == {}

\* the entries of `items` under the key `name` (none: !items[key] holds)
FindItem(items, name) == {k \in 1..Len(items) : items[k].name = name}

\* a variant of MergeItems in which every occurrence sets the unit
RECURSIVE MergeItemsLastUnit(_, _, _)
MergeItemsLastUnit(ingredients, i, items) ==
  IF i > Len(ingredients) THEN items
  ELSE LET ingredient == ingredients[i]
           at == FindItem(items, ingredient.name)
           created ==
             IF at = {}
               THEN Append(items,
                      [name |-> ingredient.name, amount |-> FromNat(0),
                       unit |-> "asNeeded",
                       category |-> categorizeIngredient(ingredient.name)])
               ELSE items
           k == IF at = {} THEN Len(created) ELSE CHOOSE j \in at : TRUE
       IN MergeItemsLastUnit(ingredients, i + 1,
            [created EXCEPT ![k].amount = FAdd(@, ingredient.adjustedAmount),
                            ![k].unit = IF ingredient.unit = "" THEN "asNeeded"
                                        ELSE ingredient.unit])

\* `items` after the forEach of generate: one entry per key, in insertion order
\* (单位 falls back to 适量 asNeeded)
RECURSIVE MergeItems(_, _, _)
MergeItems(ingredients, i, items) ==
  IF i > Len(ingredients) THEN items
  ELSE LET ingredient == ingredients[i]
           at == FindItem(items, ingredient.name)
           created ==
             IF at = {}
               THEN Append(items,
                      [name |-> ingredient.name, amount |-> FromNat(0),
                       unit |-> IF ingredient.unit = "" THEN "asNeeded" ELSE ingredient.unit,
                       category |-> categorizeIngredient(ingredient.name)])
               ELSE items
           k == IF at = {} THEN Len(created) ELSE CHOOSE j \in at : TRUE
       IN MergeItems(ingredients, i + 1,
            [created EXCEPT ![k].amount = FAdd(@, ingredient.adjustedAmount)])

\* a variant of CategoryList that pushes every item to every list
EveryItemList(items, category) ==
  SortByName([k \in 1..Len(items) |->
    [name |-> items[k].name, amount |-> FDivNat(Round(FMulNat(items[k].amount, 100)), 100),
     unit |-> items[k].unit, purchased |-> FALSE]])

\* 清单[category] of generate: the pushed entries, sorted
\* (用量: Math.round(item.用量 * 100) / 100)
CategoryList(items, category) ==
  LET Test(item) == item.category = category
      mine == SelectSeq(items, Test)
  IN SortByName([k \in 1..Len(mine) |->
       [name |-> mine[k].name, amount |-> FDivNat(Round(FMulNat(mine[k].amount, 100)), 100),
        unit |-> mine[k].unit, purchased |-> FALSE]])

\* a variant of getShoppingTips that gives the tip about vegetables always
TipsRegardless(lists) ==
  <<"vegetablesFresh">>
  \o (IF Len(lists.meat) > 0 THEN <<"meatFrozen">> ELSE <<>>)
  \o (IF Len(lists.seafood) > 0 THEN <<"seafoodSameDay">> ELSE <<>>)
  \o (IF \E c \in ListCategorySet : Len(lists[c]) > 0
        THEN <<"buyByCategory">> ELSE <<>>)

getShoppingTips(lists) ==
  LET tips ==
        (IF Len(lists.vegetable) > 5 THEN <<"vegetablesFresh">> ELSE <<>>)
        \o (IF Len(lists.meat) > 0 THEN <<"meatFrozen">> ELSE <<>>)
        \o (IF Len(lists.seafood) > 0 THEN <<"seafoodSameDay">> ELSE <<>>)
        \o (IF \E c \in ListCategorySet : Len(lists[c]) > 0
              THEN <<"buyByCategory">> ELSE <<>>)
  IN IF Len(tips) > 0 THEN tips ELSE <<"buyByTheList">>

\* a variant of CategoryStats that counts the empty lists too
CountsEveryCategory(lists) == [c \in ListCategorySet |-> Len(lists[c])]

\* stats.分类统计: the length of every list that holds an entry
CategoryStats(lists) ==
  [c \in {d \in ListCategorySet : Len(lists[d]) > 0} |-> Len(lists[c])]

\* what generate returns (清单 list, 统计 stats, 总项数 totalItems,
\* 分类统计 categoryStats, 生成时间 generatedAt, 提示 tips)
generate(m, people, now) ==
  LET items == MergeItems(AllAdjusted(Flat(m), 1), 1, <<>>)
      lists == [c \in ListCategorySet |-> CategoryList(items, c)]
  IN [list |-> lists,
      stats |-> [totalItems |-> Len(items),
                 categoryStats |-> CategoryStats(lists)],
      generatedAt |-> now,
      people |-> people,
      tips |-> getShoppingTips(lists)]

(***************************************************************************)
(* handleRecommend.                                                        *)
(***************************************************************************)
Digits == <<"0", "1", "2", "3", "4", "5", "6", "7", "8", "9">>

IsDigit(c) == \E d \in 1..Len(Digits) : Digits[d] = c

DigitValue(c) == (CHOOSE d \in 1..Len(Digits) : Digits[d] = c) - 1

\* the value of the digits of text from position i on, up to the first
\* character that is no digit; `value` is that of the digits before i
RECURSIVE LeadingDigits(_, _, _)
LeadingDigits(text, i, value) ==
  IF i > Len(text) \/ ~IsDigit(text[i]) THEN value
  ELSE LeadingDigits(text, i + 1, 10 * value + DigitValue(text[i]))

\* parseInt(url.searchParams.get(name)) for a parameter given as its
\* characters, None when the URL does not name it: an optional sign and the
\* digits that follow it; None stands for NaN, which is what parseInt returns
\* when no digit follows
ParseInt(parameter) ==
  IF ~Has(parameter) THEN None
  ELSE LET text   == Get(parameter)
           signed == Len(text) > 0 /\ text[1] \in {"-", "+"}
           start  == IF signed THEN 2 ELSE 1
           value  == LeadingDigits(text, start, 0)
       IN IF start > Len(text) \/ ~IsDigit(text[start]) THEN None
          ELSE IF text[1] = "-" THEN Some(0 - value)
          ELSE Some(value)

\* number || fallback: NaN and 0 are falsy
OrDefault(number, fallback) ==
  IF Has(number) /\ Get(number) # 0 THEN Get(number) ELSE fallback

\* 用餐人数 when the request names none: parseInt(...) || 6
DefaultPeople == 6

Months == 1..12

getCurrentSeason(month) ==
  IF month >= 3 /\ month <= 5 THEN "spring"
  ELSE IF month >= 6 /\ month <= 8 THEN "summer"
  ELSE IF month >= 9 /\ month <= 11 THEN "autumn"
  ELSE "winter"

\* the URL's parameters 人数, 季节, 需求, 时间, 难度: 人数 and 时间 as their
\* characters, 需求 as the set of its comma-separated parts
Query(people, season, specialNeeds, cookTime, difficulty) ==
  [people |-> people, season |-> season, specialNeeds |-> specialNeeds,
   cookTime |-> cookTime, difficulty |-> difficulty]

\* how a client writes a natural number in a URL
RECURSIVE Decimal(_)
Decimal(n) ==
  IF n < 10 THEN <<Digits[n + 1]>> ELSE Append(Decimal(n \div 10), Digits[(n % 10) + 1])

\* the URL that names every parameter of p
Asked(p) ==
  Query(Some(Decimal(p.people)), Some(p.season), p.specialNeeds,
        Some(Decimal(p.cookTime)), Some(p.difficulty))

\* `params` of handleRecommend, in a month of the year
ParseParams(q, month) ==
  Params(OrDefault(ParseInt(q.people), DefaultPeople),
         IF Has(q.season) THEN Get(q.season) ELSE getCurrentSeason(month),
         q.specialNeeds,
         OrDefault(ParseInt(q.cookTime), DefaultCookTime),
         IF Has(q.difficulty) THEN Get(q.difficulty) ELSE "unlimited")

\* total + (recipe.准备时间 || 0) + (recipe.烹饪时间 || 0) over the menu
RECURSIVE TotalTime(_, _)
TotalTime(entries, i) ==
  IF i > Len(entries) THEN 0
  ELSE entries[i].recipe.prepTime + entries[i].recipe.cookTime + TotalTime(entries, i + 1)

\* 总时间 > 120 in getCookingTips
LongMenuMinutes == 120

getCookingTips(m, p) ==
  (IF p.season \in {"spring", "summer", "autumn", "winter"} THEN <<p.season>> ELSE <<>>)
  \o (IF p.people >= 8 THEN <<"prepareAhead">> ELSE <<>>)
  \o (IF TotalTime(Flat(m), 1) > LongMenuMinutes THEN <<"planInStages">> ELSE <<>>)

\* the identifiers bound where handleRecommend's body runs: its parameters
HandlerScope == {"request", "env", "corsHeaders"}

\* the 成功 response of handleRecommend (参数, 菜单, 营养信息, 购物清单, 提示)
ResponseData(p, m, n, s) ==
  [success |-> TRUE, params |-> p, menu |-> m, nutrition |-> n, shopping |-> s,
   tips |-> getCookingTips(m, p)]

(***************************************************************************)
(* The state machine: one request to /api/recommend runs through           *)
(* handleRecommend, step by step.                                          *)
(***************************************************************************)
VARIABLES
  catalog,    \* the recipes fetchRecipesFromGitHub returns
  query,      \* the parameters of the request's URL
  params,     \* `params` of handleRecommend
  pc,         \* the handler's position
  relaxed,    \* whether recommend filtered a second time
  filtered,   \* filteredRecipes in recommend
  menu,       \* what recommend returned
  nutrition,  \* what calculate returned
  shopping,   \* what generate returned
  response,   \* the Response the worker sent
  cache,      \* env.RECIPE_CACHE: request parameters to cached body
  clock,      \* what new Date() reads
  requests,   \* how many times the request has been sent
  previous    \* the menu, nutrition and shopping list of the request before

vars ==
  <<catalog, query, params, pc, relaxed, filtered, menu, nutrition, shopping, response, cache,
    clock, requests, previous>>

EmptyMenu == [main |-> <<>>, side |-> <<>>, soup |-> <<>>, staple |-> <<>>]

\* 验证参数: a 用餐人数 outside 1..20 is answered with status 400
Validate ==
  /\ pc = "validate"
  /\ IF params.people < MinPeople \/ params.people > MaxPeople
       THEN /\ response' = Some([status |-> 400, body |-> None])
            /\ pc' = "done"
       ELSE /\ response' = response
            /\ pc' = "recommend"
  /\ UNCHANGED <<catalog, query, params, relaxed, filtered, menu, nutrition, shopping,
                 cache, clock, requests, previous>>

\* a variant of OriginalAfterAdjust for a callback that scales 用量 in place
AdjustsInPlace(recipe, people) ==
  IF ~Has(recipe.servings) \/ ~Has(Get(recipe.servings).ingredients) THEN recipe
  ELSE LET list == Get(Get(recipe.servings).ingredients)
       IN [recipe EXCEPT !.servings[1].ingredients[1] =
             [j \in 1..Len(list) |->
                Ingredient(list[j].name, list[j].amount * people, list[j].unit)]]

\* a recipe of the catalog after the callback of adjustServings ran on it:
\* the callback writes 调整后食材 to `adjusted`, the copy that
\* JSON.parse(JSON.stringify(recipe)) made, and nothing to `recipe`
OriginalAfterAdjust(recipe, people) == recipe

\* the catalog after adjustServings ran on the selected recipes; filterRecipes,
\* categorizeRecipes and randomSelect build new arrays and write to no recipe
CatalogAfter(recipes, selected, people) ==
  [i \in 1..Len(recipes) |->
     IF \E c \in DOMAIN selected : \E j \in 1..Len(selected[c]) : selected[c][j].id = i
       THEN OriginalAfterAdjust(recipes[i], people)
       ELSE recipes[i]]

\* the cache lookup, the fetch of the catalog and recommend
Recommend ==
  /\ pc = "recommend"
  /\ IF params \in DOMAIN cache
       THEN /\ response' = Some([status |-> 200, body |-> Some(cache[params])])
            /\ pc' = "done"
            /\ UNCHANGED <<catalog, relaxed, filtered, menu>>
       ELSE LET strict == filterRecipes(catalog, params)
                chosen == FilteredRecipes(catalog, params)
            IN /\ relaxed' = NeedsRelaxation(strict)
               /\ filtered' = chosen
               /\ \E selected \in Selections(Buckets(chosen), params) :
                    /\ menu' = adjustServings(selected, params.people)
                    /\ catalog' = CatalogAfter(catalog, selected, params.people)
               /\ pc' = "calculate"
               /\ UNCHANGED response
  /\ UNCHANGED <<query, params, nutrition, shopping, cache, clock, requests, previous>>

Calculate ==
  /\ pc = "calculate"
  /\ nutrition' = Some(calculate(menu, params.people))
  /\ pc' = "generate"
  /\ UNCHANGED <<catalog, query, params, relaxed, filtered, menu, shopping, response, cache,
                 clock, requests, previous>>

Generate ==
  /\ pc = "generate"
  /\ shopping' = Some(generate(menu, params.people, clock))
  /\ pc' = "respond"
  /\ UNCHANGED <<catalog, query, params, relaxed, filtered, menu, nutrition, response, cache,
                 clock, requests, previous>>

\* responseData, ctx.waitUntil(env.RECIPE_CACHE.put(...)) and the Response; an
\* identifier that is not bound throws a ReferenceError, which fetch catches
Respond ==
  /\ pc = "respond"
  /\ LET data == ResponseData(params, menu, Get(nutrition), Get(shopping))
     IN IF "ctx" \in HandlerScope
          THEN /\ cache' = [k \in DOMAIN cache \cup {params} |->
                              IF k = params THEN data ELSE cache[k]]
               /\ response' = Some([status |-> 200, body |-> Some(data)])
          ELSE /\ cache' = cache
               /\ response' = Some([status |-> 500, body |-> None])
  /\ pc' = "done"
  /\ UNCHANGED <<catalog, query, params, relaxed, filtered, menu, nutrition, shopping, clock,
                 requests, previous>>

\* how many times the model sends the request
MaxRequests == 2

\* the client sends the same request again, at the same millisecond or later
NextRequest ==
  /\ pc = "done"
  /\ requests < MaxRequests
  /\ requests' = requests + 1
  /\ previous' = Some([menu |-> menu, nutrition |-> nutrition, shopping |-> shopping])
  /\ \E elapsed \in {0, 1} : clock' = clock + elapsed
  /\ pc' = "validate"
  /\ relaxed' = FALSE
  /\ filtered' = <<>>
  /\ menu' = EmptyMenu
  /\ nutrition' = None
  /\ shopping' = None
  /\ response' = None
  /\ UNCHANGED <<catalog, query, params, cache>>

(***************************************************************************)
(* Catalogs and requests.                                                  *)
(***************************************************************************)
\* 春笋炒肉片 and 凉拌黄瓜, the sampleRecipes of fetchRecipesFromGitHub
SpringBambooPork ==
  Recipe(Some({"main", "seasonal"}), Some({"spring"}), Some("beginner"), 15, 10,
         Some(Servings(6, Some(<<Ingredient(ChunSun, 500, "g"),
                                 Ingredient(ZhuLiJiRou, 300, "g")>>))),
         None, {})

ColdCucumber ==
  Recipe(Some({"side", "cold"}), Some({"summer"}), Some("beginner"), 10, 0,
         None, None, {})

\* further recipes a catalog can hold
TofuSoup ==
  Recipe(Some({"soup"}), None, Some("beginner"), 5, 15,
         Some(Servings(4, Some(<<Ingredient(DouFu, 200, "g"), Ingredient(Yan, 3, "g")>>))),
         Some(Nutrition(150, 12, 8, 6, 1)), {})

SteamedRice ==
  Recipe(Some({"staple"}), None, None, 5, 25,
         Some(Servings(12, Some(<<Ingredient(DaMi, 225, "g")>>))),
         Some(Nutrition(780, 16, 172, 2, 1)), {})

ShrimpWithEgg ==
  Recipe(Some({"main"}), Some({"spring", "summer"}), Some("advanced"), 20, 30,
         Some(Servings(4, Some(<<Ingredient(XiaRen, 300, "g"), Ingredient(JiDan, 3, ""),
                                 Ingredient(Yan, 2, "spoon")>>))),
         Some(Nutrition(800, 30, 10, 40, 2)), {"seafood"})

SteamedEgg ==
  Recipe(Some({"side"}), None, Some("intermediate"), 5, 15,
         Some(Servings(20, Some(<<Ingredient(JiDan, 3, ""), Ingredient(Yan, 1, "g")>>))),
         Some(Nutrition(290, 26, 2, 20, 0)), {})

BraisedTofu ==
  Recipe(Some({"side", "main"}), Some({"spring"}), Some("beginner"), 10, 20,
         Some(Servings(6, Some(<<Ingredient(DouFu, 400, "g"),
                                 Ingredient(ZhuLiJiRou, 45, "g")>>))),
         Some(Nutrition(420, 35, 12, 24, 3)), {})

TofuSalad ==
  Recipe(Some({"side", "cold"}), Some({"summer"}), Some("beginner"), 10, 0,
         Some(Servings(4, Some(<<Ingredient(DouFu, 150, "g"), Ingredient(Yan, 1, "g")>>))),
         Some(Nutrition(120, 10, 5, 7, 1)), {})

BraisedPork ==
  Recipe(Some({"main"}), Some({"autumn", "winter"}), Some("intermediate"), 20, 60,
         Some(Servings(8, Some(<<Ingredient(ZhuLiJiRou, 600, "g"),
                                 Ingredient(Yan, 4, "g")>>))),
         Some(Nutrition(1990, 98, 15, 134, 0)), {})

\* a recipe outside the four categories of the menu (时令菜)
SeasonalSnack ==
  Recipe(Some({"seasonal"}), None, Some("beginner"), 5, 5, None, None, {})

Book ==
  <<SpringBambooPork, ColdCucumber, TofuSoup, SteamedRice, ShrimpWithEgg, SteamedEgg,
    BraisedTofu, TofuSalad, BraisedPork>>

\* the runs of n consecutive recipes of Book
Runs(n) == {SubSeq(Book, a, Min(a + n - 1, Len(Book))) : a \in 1..Len(Book)}

People == MinPeople..MaxPeople

\* the party sizes on both sides of where the counts of selectMainDishes and
\* selectSideDishes change
TurningPoints == {4, 5, 7, 8, 9}

\* requests whose filters let every recipe pass: 季节 不限, no 需求, 难度 不限
OpenRequest(people) == Params(people, "unlimited", {}, DefaultCookTime, "unlimited")

\* requests with filters: 季节, 需求, 时间, 难度
SpringRequest(people) == Params(people, "spring", {"seafood"}, 20, "beginner")

SummerRequest(people) == Params(people, "summer", {"seafood"}, DefaultCookTime, "intermediate")

Idle ==
  /\ pc = "validate"
  /\ relaxed = FALSE
  /\ filtered = <<>>
  /\ menu = EmptyMenu
  /\ nutrition = None
  /\ shopping = None
  /\ response = None
  /\ cache = <<>>
  /\ clock = 0
  /\ requests = 1
  /\ previous = None

\* how many recipes the catalogs of Init hold at most
MaxCatalog == 4

\* handleRecommend has built `params` from the URL
Parsed == params \in {ParseParams(query, month) : month \in Months}

Init ==
  /\ catalog \in {WithIds(run) : run \in UNION {Runs(n) : n \in 0..MaxCatalog}}
  /\ query \in {Asked(OpenRequest(p)) : p \in People}
               \cup {Asked(SpringRequest(p)) : p \in TurningPoints}
               \cup {Asked(SummerRequest(p)) : p \in TurningPoints}
  /\ Parsed
  /\ Idle

Next == Validate \/ Recommend \/ Calculate \/ Generate \/ Respond

Spec == Init /\ [][Next]_vars

\* how many recipes outside the menu's categories a catalog of InitFilter holds,
\* beyond those that bring it to the threshold of recommend
MaxFillers == 2

\* how many recipes of Book a catalog of InitFilter holds at most
MaxVaried == 2

Fillers(k) == [i \in 1..k |-> SeasonalSnack]

\* catalogs around the threshold of recommend: some recipes of Book among
\* recipes of the beginner's level
InitFilter ==
  /\ catalog \in {WithIds(run \o Fillers(k)) :
                    run \in UNION {Runs(n) : n \in 0..MaxVaried},
                    k \in (RelaxThreshold - MaxVaried)..(RelaxThreshold + MaxFillers)}
  /\ query \in {Asked(Params(p, "unlimited", {}, DefaultCookTime, d)) :
                  p \in {2, 9}, d \in {"beginner", "advanced", "unlimited"}}
  /\ Parsed
  /\ Idle

SpecFilter == InitFilter /\ [][Next]_vars

\* how many recipes the catalogs of InitRepeat hold at most
MaxRepeated == 3

InitRepeat ==
  /\ catalog \in {WithIds(run) : run \in UNION {Runs(n) : n \in 0..MaxRepeated}}
  /\ query \in {Asked(OpenRequest(p)) : p \in {2, 9}}
  /\ Parsed
  /\ Idle

NextRepeat == Next \/ NextRequest

SpecRepeat == InitRepeat /\ [][NextRepeat]_vars

\* recipes whose 标准份量 names no 基准人数, or 0
StewWithoutBase ==
  Recipe(Some({"main"}), None, Some("beginner"), 10, 40,
         Some(ServingsWithoutBase(Some(<<Ingredient(ZhuLiJiRou, 300, "g")>>))),
         Some(Nutrition(640, 45, 6, 48, 0)), {})

SoupForNobody ==
  Recipe(Some({"soup"}), None, Some("beginner"), 5, 15,
         Some(Servings(0, Some(<<Ingredient(DouFu, 200, "g"), Ingredient(Yan, 0, "g")>>))),
         Some(Nutrition(150, 12, 8, 6, 0)), {})

DataBook == <<TofuSoup, StewWithoutBase, SteamedRice, SoupForNobody, BraisedTofu>>

\* how many recipes the catalogs of InitData hold at most
MaxData == 3

\* catalogs with recipes whose 基准人数 cannot be divided by
InitData ==
  /\ catalog \in {WithIds(SubSeq(DataBook, a, Min(a + n - 1, Len(DataBook)))) :
                    a \in 1..Len(DataBook), n \in 0..MaxData}
  /\ query \in {Asked(OpenRequest(p)) : p \in People}
  /\ Parsed
  /\ Idle

SpecData == InitData /\ [][Next]_vars

\* a recipe whose 适用季节 is an empty list
YearRoundPickle ==
  Recipe(Some({"side", "cold"}), Some({}), Some("beginner"), 10, 0, None, None, {})

\* what a URL can carry as 人数: nothing, numbers inside and outside 1..20,
\* and text that is no integer
PeopleTexts ==
  {None, Some(<<"0">>), Some(<<"-", "1">>), Some(<<"1">>), Some(<<"6">>),
   Some(<<"2", "0">>), Some(<<"2", "1">>), Some(<<"9", "9">>),
   Some(<<"7", ".", "9">>), Some(<<"a", "b", "c">>)}

\* how many recipes the catalogs of InitRequest hold at most
MaxAsked == 2

\* requests as they arrive, before any validation
InitRequest ==
  /\ catalog \in {WithIds(run \o rest) :
                    run \in UNION {Runs(n) : n \in 0..MaxAsked},
                    rest \in {<<>>, <<YearRoundPickle>>}}
  /\ query \in {Query(people, season, {}, None, None) :
                  people \in PeopleTexts, season \in {None, Some("unlimited")}}
  /\ Parsed
  /\ Idle

SpecRequest == InitRequest /\ [][Next]_vars

\* a 主菜 and a 汤品 with 热量 only, and a recipe that holds the daily
\* recommendation of every nutrient for ten people
PorkForSix ==
  Recipe(Some({"main"}), None, Some("beginner"), 15, 30,
         Some(Servings(6, Some(<<Ingredient(ZhuLiJiRou, 300, "g")>>))),
         Some(Nutrition(800, 0, 0, 0, 0)), {})

TofuSoupForFour ==
  Recipe(Some({"soup"}), None, Some("beginner"), 5, 15,
         Some(Servings(4, Some(<<Ingredient(DouFu, 200, "g")>>))),
         Some(Nutrition(150, 0, 0, 0, 0)), {})

DayRation ==
  Recipe(Some({"staple"}), None, None, 10, 30,
         Some(Servings(10, Some(<<Ingredient(DaMi, 1000, "g")>>))),
         Some(Nutrition(DailyCalories, DailyProtein, DailyCarbs, DailyFat, DailyFiber)),
         {})

NutritionBook ==
  <<SpringBambooPork, ColdCucumber, PorkForSix, TofuSoupForFour, DayRation, BraisedPork,
    SteamedEgg>>

\* how many recipes the catalogs of InitNutrition hold at most
MaxMeals == 2

InitNutrition ==
  /\ catalog \in {WithIds(SubSeq(NutritionBook, a, Min(a + n - 1, Len(NutritionBook)))) :
                    a \in 1..Len(NutritionBook), n \in 0..MaxMeals}
  /\ query \in {Asked(OpenRequest(p)) : p \in People}
  /\ Parsed
  /\ Idle

SpecNutrition == InitNutrition /\ [][Next]_vars

\* a 配菜 of six vegetables, and a 主菜 with 蚝油 and with 调味料
VegetablePlatter ==
  Recipe(Some({"side"}), None, Some("beginner"), 20, 10,
         Some(Servings(4, Some(<<Ingredient(QingCai, 300, "g"),
                                 Ingredient(XiangGu, 100, "g"),
                                 Ingredient(QingJiao, 2, ""),
                                 Ingredient(HuangGua, 1, "piece"),
                                 Ingredient(QieZi, 200, "g"),
                                 Ingredient(TuDou, 250, "g")>>))),
         None, {})

OysterSaucePork ==
  Recipe(Some({"main"}), None, Some("beginner"), 15, 20,
         Some(SeasonedServings(6, Some(<<Ingredient(ZhuLiJiRou, 300, "g"),
                                         Ingredient(HaoYou, 25, "g"),
                                         Ingredient(Yan, 1, "spoon")>>),
                               <<Ingredient(Tang, 5, "g")>>)),
         None, {})

ListBook == <<VegetablePlatter, OysterSaucePork, TofuSoup, ShrimpWithEgg, SteamedRice>>

\* how many recipes the catalogs of InitList hold at most
MaxListed == 3

InitList ==
  /\ catalog \in {WithIds(SubSeq(ListBook, a, Min(a + n - 1, Len(ListBook)))) :
                    a \in 1..Len(ListBook), n \in 0..MaxListed}
  /\ query \in {Asked(OpenRequest(p)) : p \in People}
  /\ Parsed
  /\ Idle

SpecList == InitList /\ [][Next]_vars

(***************************************************************************)
(* Properties.                                                             *)
(***************************************************************************)
Categories == {"main", "side", "soup", "staple"}

\* the recipes of the menu, with what adjustServings attached to them
Selected == Flat(menu)

\* round(q * p / base) to one decimal place, half up, in tenths
RoundedTenths(q, p, base) == (2 * 10 * q * p + base) \div (2 * base)

\* C1: every scaled ingredient quantity of every recipe in the menu equals
\* round(originalQuantity * partySize / baseServings) to one decimal place
ScalingLaw ==
  \A i \in 1..Len(Selected) :
    Has(Selected[i].adjustedIngredients) =>
      \A j \in 1..Len(Get(Selected[i].adjustedIngredients)) :
        LET ingredient == Get(Selected[i].adjustedIngredients)[j]
        IN ingredient.adjustedAmount
             = Tenths(RoundedTenths(ingredient.amount, params.people,
                                    Get(Get(Selected[i].recipe.servings).basePeople)))

\* the target count of a category for a party size
Target(c, people) ==
  CASE c = "main" -> IF people >= 8 THEN 2 ELSE 1
    [] c = "side" -> IF people <= 4 THEN 1 ELSE IF people <= 8 THEN 2 ELSE 3
    [] c = "soup" -> 1
    [] c = "staple" -> 1

\* the number of eligible recipes in a category's bucket
BucketSize(c) ==
  Cardinality({i \in 1..Len(filtered) :
                 Has(filtered[i].categories) /\ c \in Get(filtered[i].categories)})

\* C2: the number of recipes in menu[category] is at most the target count for
\* the category and party size, and at most the size of the category's bucket
SelectionBound ==
  \A c \in Categories :
    /\ Len(menu[c]) <= Target(c, params.people)
    /\ Len(menu[c]) <= BucketSize(c)

\* recommend has returned a menu with fewer recipes than the bucket holds
SelectionBoundWitness ==
  /\ pc = "calculate"
  /\ \E c \in Categories :
       BucketSize(c) > Target(c, params.people) /\ Len(menu[c]) = Target(c, params.people)

\* C3: the number selected per category is exactly min(target, bucket size); a
\* bucket smaller than the target, or empty, yields all of its recipes
TargetCounts ==
  pc \notin {"validate", "recommend"} =>
    \A c \in Categories :
      Len(menu[c]) = IF Target(c, params.people) < BucketSize(c)
                       THEN Target(c, params.people) ELSE BucketSize(c)

\* recommend has returned with a bucket above its target, a bucket below its
\* target that gave all of its recipes, and an empty bucket
TargetCountsWitness ==
  /\ pc = "calculate"
  /\ \E c \in Categories : BucketSize(c) > Target(c, params.people)
  /\ \E c \in Categories :
       /\ 0 < BucketSize(c)
       /\ BucketSize(c) < Target(c, params.people)
       /\ Len(menu[c]) = BucketSize(c)
  /\ \E c \in Categories : BucketSize(c) = 0 /\ menu[c] = <<>>

\* the recipes of the catalog that pass the filters of the request as it is
StrictResult == filterRecipes(catalog, params)

\* ... and with the difficulty predicate disabled
RelaxedResult == filterRecipes(catalog, [params EXCEPT !.difficulty = "unlimited"])

\* C4: the filters are run again with the difficulty predicate disabled if and
\* only if the strict result holds fewer than 10 recipes, and the result of
\* the second run then replaces the strict result
RelaxationTrigger ==
  pc \notin {"validate", "recommend"} =>
    /\ relaxed <=> Len(StrictResult) < 10
    /\ filtered = IF Len(StrictResult) < 10 THEN RelaxedResult ELSE StrictResult

\* nine recipes passed, and the second run brought back one more
RelaxationTriggerWitness ==
  /\ pc = "done"
  /\ Len(StrictResult) = 9
  /\ relaxed
  /\ filtered = RelaxedResult
  /\ Len(RelaxedResult) > 9

\* C5: two invocations on the same catalog and the same request produce the
\* same menu, the same nutrition summary and the same shopping list (here
\* even when the clock reads the same for both)
Determinism ==
  (/\ pc = "done"
   /\ Has(previous)
   /\ Get(shopping).generatedAt = Get(Get(previous).shopping).generatedAt) =>
    [menu |-> menu, nutrition |-> nutrition, shopping |-> shopping] = Get(previous)

\* the names of the ingredients of the selected recipes
IngredientNames ==
  UNION {{Get(Get(Selected[i].recipe.servings).ingredients)[j].name :
            j \in 1..Len(Get(Get(Selected[i].recipe.servings).ingredients))} :
         i \in {k \in 1..Len(Selected) :
                  /\ Has(Selected[k].recipe.servings)
                  /\ Has(Get(Selected[k].recipe.servings).ingredients)}}

\* C6: the total item count of the shopping list equals the number of
\* distinct ingredient names across the selected recipes
ItemCountIdentity ==
  Has(shopping) => Get(shopping).stats.totalItems = Cardinality(IngredientNames)

\* a shopping list of a menu in which two recipes name the same ingredient
ItemCountIdentityWitness ==
  /\ Has(shopping)
  /\ Get(shopping).stats.totalItems > 1
  /\ \E i, j \in 1..Len(Selected) :
       /\ i < j
       /\ Has(Selected[i].adjustedIngredients)
       /\ Has(Selected[j].adjustedIngredients)
       /\ \E a \in 1..Len(Get(Selected[i].adjustedIngredients)) :
            \E b \in 1..Len(Get(Selected[j].adjustedIngredients)) :
              Get(Selected[i].adjustedIngredients)[a].name
                = Get(Selected[j].adjustedIngredients)[b].name

\* the reference daily values
Reference == [calories |-> 2000, protein |-> 60, carbs |-> 300, fat |-> 67, fiber |-> 25]

DifficultyRank(d) ==
  CASE d = "beginner" -> 1
    [] d = "intermediate" -> 2
    [] d = "advanced" -> 3

\* the filter predicates of a request: season, difficulty ceiling, time
\* budget, dietary exclusions
SatisfiesRequest(recipe, p, withDifficulty) ==
  /\ \/ p.season = "unlimited"
     \/ ~Has(recipe.seasons)
     \/ Get(recipe.seasons) = {}
     \/ p.season \in Get(recipe.seasons)
  /\ (withDifficulty /\ p.difficulty # "unlimited" /\ Has(recipe.difficulty)) =>
       DifficultyRank(Get(recipe.difficulty)) <= DifficultyRank(p.difficulty)
  /\ recipe.prepTime + recipe.cookTime <= p.cookTime
  /\ recipe.tags \cap p.specialNeeds = {}

\* C8: every recipe in the menu satisfies all filter predicates of the request
\* or, when relaxation was triggered, all of them except the difficulty one
FiltersRespected ==
  \A i \in 1..Len(Selected) : SatisfiesRequest(Selected[i].recipe, params, ~relaxed)

\* C9: within one category no recipe appears twice
DistinctSelections ==
  \A c \in Categories :
    \A i, j \in 1..Len(menu[c]) : i # j => menu[c][i].recipe.id # menu[c][j].recipe.id

\* three recipes drawn for one category from a bucket of three or more
DistinctSelectionsWitness ==
  /\ pc = "calculate"
  /\ \E c \in Categories : Len(menu[c]) = 3 /\ BucketSize(c) >= 3

\* C10: every validated request, whatever the catalog, is answered with a
\* successful bundle holding menu, nutrition summary and shopping list
AlwaysSuccessful ==
  pc = "done" =>
    /\ Get(response).status = 200
    /\ Has(Get(response).body)

\* a recipe with a 标准份量 whose 基准人数 is missing or zero
InvalidBase(recipe) ==
  /\ Has(recipe.servings)
  /\ \/ ~Has(Get(recipe.servings).basePeople)
     \/ Get(Get(recipe.servings).basePeople) = 0

\* C11: a recipe whose baseServings is missing or zero is skipped from the
\* bundle, and no scaled quantity and no nutrition total is computed from the
\* invalid base serving count (every number of the bundle is a finite one)
InvalidBaseSkipped ==
  /\ \A i \in 1..Len(Selected) :
       /\ ~InvalidBase(Selected[i].recipe)
       /\ Has(Selected[i].adjustedIngredients) =>
            \A j \in 1..Len(Get(Selected[i].adjustedIngredients)) :
              IsFinite(Get(Selected[i].adjustedIngredients)[j].adjustedAmount)
  /\ Has(nutrition) => \A n \in NutrientNames : IsFinite(Get(nutrition).total[n])

\* C12: recommend leaves every recipe of the catalog as it was (ingredient
\* list and quantities included), and a recipe of the menu still carries the
\* catalog's own quantities: the scaled ones are in the derived list beside
\* them
CatalogUntouched ==
  /\ [][catalog' = catalog]_vars
  /\ [](\A i \in 1..Len(Selected) :
          Selected[i].recipe = catalog[Selected[i].recipe.id])

\* a request answered with a recipe whose scaled quantity differs from the
\* catalog's quantity
CatalogUntouchedWitness ==
  /\ pc = "done"
  /\ \E i \in 1..Len(Selected) :
       /\ Has(Selected[i].adjustedIngredients)
       /\ \E j \in 1..Len(Get(Selected[i].adjustedIngredients)) :
            LET scaled == Get(Selected[i].adjustedIngredients)[j]
                original ==
                  Get(Get(catalog[Selected[i].recipe.id].servings).ingredients)[j]
            IN /\ original.amount = scaled.amount
               /\ scaled.adjustedAmount # FromNat(original.amount)

\* the 人数 of the request's URL, where it is an integer
AskedPeople == ParseInt(query.people)

\* C13: the engine, the calculator and the list builder run only with an
\* integer party size in 1..20, and a request whose party size is outside
\* 1..20 goes from validation straight to the answer with status 400
OutOfRangeRejected ==
  /\ pc \in {"recommend", "calculate", "generate", "respond"} =>
       params.people \in MinPeople..MaxPeople
  /\ (Has(AskedPeople) /\ Get(AskedPeople) \notin MinPeople..MaxPeople) =>
       /\ pc \in {"validate", "done"}
       /\ menu = EmptyMenu /\ nutrition = None /\ shopping = None
       /\ pc = "done" => Has(response) /\ Get(response).status = 400

\* a recipe that is in season for the request beyond doubt: no season asked
\* for, no season list, or the season listed
InSeason(recipe) ==
  \/ params.season = "unlimited"
  \/ ~Has(recipe.seasons)
  \/ params.season \in Get(recipe.seasons)

\* ... whose difficulty is beyond doubt: no ceiling, no level, or the very level
AtLevel(recipe) ==
  \/ params.difficulty = "unlimited"
  \/ ~Has(recipe.difficulty)
  \/ Get(recipe.difficulty) = params.difficulty

\* ... whose preparation and cooking together fit the time budget
InTime(recipe) == recipe.prepTime + recipe.cookTime <= params.cookTime

\* ... which carries no excluded tag
Allowed(recipe) == recipe.tags \cap params.specialNeeds = {}

InStrictResult(recipe) == \E k \in 1..Len(StrictResult) : StrictResult[k] = recipe

\* C14: when a difficulty ceiling is set, a recipe passes the strict filter if
\* and only if its difficulty is at most the ceiling, in the order
\* beginner < intermediate < advanced
DifficultyCeiling ==
  pc \in {"calculate", "generate", "respond"} =>
    \A i \in 1..Len(catalog) :
      (/\ params.difficulty # "unlimited"
       /\ Has(catalog[i].difficulty)
       /\ InSeason(catalog[i]) /\ InTime(catalog[i]) /\ Allowed(catalog[i])) =>
        (InStrictResult(catalog[i])
           <=> DifficultyRank(Get(catalog[i].difficulty))
                 <= DifficultyRank(params.difficulty))

\* C15: a recipe passes the filter if and only if its 准备时间 and 烹饪时间
\* together are within the request's time budget
TimeBudget ==
  pc \in {"calculate", "generate", "respond"} =>
    \A i \in 1..Len(catalog) :
      (InSeason(catalog[i]) /\ AtLevel(catalog[i]) /\ Allowed(catalog[i])) =>
        (InStrictResult(catalog[i])
           <=> catalog[i].prepTime + catalog[i].cookTime <= params.cookTime)

\* C16: a recipe passes the filter if and only if the request names no
\* season, or the recipe has no season list or an empty one, or its season
\* list holds the season of the request
SeasonEligibility ==
  pc \in {"calculate", "generate", "respond"} =>
    \A i \in 1..Len(catalog) :
      (AtLevel(catalog[i]) /\ InTime(catalog[i]) /\ Allowed(catalog[i])) =>
        (InStrictResult(catalog[i])
           <=> \/ params.season = "unlimited"
               \/ ~Has(catalog[i].seasons)
               \/ Get(catalog[i].seasons) = {}
               \/ params.season \in Get(catalog[i].seasons))

\* C17: no recipe the filter returned, and none in the menu, carries a tag
\* that the request excludes
DietaryExclusion ==
  /\ \A k \in 1..Len(filtered) : filtered[k].tags \cap params.specialNeeds = {}
  /\ \A i \in 1..Len(Selected) : Selected[i].recipe.tags \cap params.specialNeeds = {}

\* nutritionPerBase[n] * (partySize / baseServings) of a recipe, zero for a
\* recipe without nutrition data
Contribution(recipe, n) ==
  IF Has(recipe.nutrition)
    THEN FMulNat(FDivNat(FromNat(params.people), Get(Get(recipe.servings).basePeople)),
                 Get(recipe.nutrition)[n])
    ELSE FromNat(0)

\* the sum of the contributions of the first k recipes of the menu
RECURSIVE ContributionSum(_, _)
ContributionSum(n, k) ==
  IF k = 0 THEN FromNat(0)
  ELSE FAdd(ContributionSum(n, k - 1), Contribution(Selected[k].recipe, n))

\* C18: every nutrient total is the sum over the selected recipes of
\* nutritionPerBase * (partySize / baseServings), in the program's numbers;
\* a main dish of 800 kcal for six and a soup of 150 kcal for four give six
\* people 1025 kcal, 51 percent of the reference
NutritionTotals ==
  Has(nutrition) =>
    /\ \A n \in NutrientNames :
         Get(nutrition).total[n] = ContributionSum(n, Len(Selected))
    /\ (catalog = WithIds(<<PorkForSix, TofuSoupForFour>>) /\ params.people = 6) =>
         /\ Get(nutrition).total.calories = FromNat(1025)
         /\ Get(nutrition).percentages.calories = FromNat(51)

\* the main dish for six and the soup for four, summed for six people
NutritionTotalsWitness ==
  /\ pc = "done"
  /\ Has(nutrition)
  /\ Len(menu.main) = 1 /\ menu.main[1].recipe = WithIds(<<PorkForSix>>)[1]
  /\ Len(menu.soup) = 1 /\ menu.soup[1].recipe = WithIds(<<PorkForSix, TofuSoupForFour>>)[2]
  /\ params.people = 6
  /\ Get(nutrition).total.calories = FromNat(1025)

WithNutrition(entry) == Has(entry.recipe.nutrition)

\* C19: the totals are those of the menu without its recipes that have no
\* nutrition data, and a menu in which no recipe has any gets the total 0
\* and the percentage 0 for every nutrient
MissingNutritionIsZero ==
  Has(nutrition) =>
    /\ Get(nutrition).total
         = SumNutrition(SelectSeq(Selected, WithNutrition), params.people, 1,
                        [n \in NutrientNames |-> FromNat(0)])
    /\ (\A i \in 1..Len(Selected) : ~WithNutrition(Selected[i])) =>
         \A n \in NutrientNames :
           /\ Get(nutrition).total[n] = FromNat(0)
           /\ Get(nutrition).percentages[n] = FromNat(0)

\* a request answered with recipes none of which has nutrition data
MissingNutritionIsZeroWitness ==
  /\ pc = "done"
  /\ Has(nutrition)
  /\ Len(Selected) > 1
  /\ \A i \in 1..Len(Selected) : ~WithNutrition(Selected[i])
  /\ \A n \in NutrientNames : Get(nutrition).percentages[n] = FromNat(0)

\* total / reference of a nutrient of the summary
IntakeRatio(n) == FDivNat(Get(nutrition).total[n], Reference[n])

\* the label the bands low < lowTenths/10 <= inBand <= highTenths/10 < high
\* give a ratio
BandLabelled(label, ratio, lowTenths, highTenths, inBand) ==
  /\ label = "low" <=> FLess(ratio, Tenths(lowTenths))
  /\ label = "high" <=> FLess(Tenths(highTenths), ratio)
  /\ label = inBand <=> ~FLess(ratio, Tenths(lowTenths)) /\ ~FLess(Tenths(highTenths), ratio)

\* C20: calories and fat are low below 0.7 of the reference, high above 1.3
\* and adequate otherwise; protein is low below 0.8, high above 1.2 and
\* sufficient otherwise; the ratios 0.7, 1.3, 0.8 and 1.2 themselves are in
\* band; carbohydrate and fiber get no label
BandBoundaries ==
  Has(nutrition) =>
    LET evaluation == Get(nutrition).evaluation
    IN /\ BandLabelled(evaluation.calories, IntakeRatio("calories"), 7, 13, "adequate")
       /\ BandLabelled(evaluation.fat, IntakeRatio("fat"), 7, 13, "adequate")
       /\ BandLabelled(evaluation.protein, IntakeRatio("protein"), 8, 12, "sufficient")
       /\ DOMAIN evaluation = {"calories", "protein", "fat", "overall"}

\* a summary whose calories and fat are exactly 0.7 of the reference
BandBoundariesWitness ==
  /\ Has(nutrition)
  /\ IntakeRatio("calories") = Tenths(7)
  /\ IntakeRatio("fat") = Tenths(7)
  /\ Get(nutrition).evaluation.calories = "adequate"
  /\ Get(nutrition).evaluation.fat = "adequate"

Classified == {"calories", "protein", "fat"}

\* how many of calories, protein and fat carry a label
LabelCount(label) ==
  Cardinality({n \in Classified : Get(nutrition).evaluation[n] = label})

\* C21: with L and H the numbers of low and high labels among calories,
\* protein and fat, the overall verdict is deficient if L > 2, otherwise
\* excessive if H > 2, otherwise balanced if protein is sufficient and fat
\* adequate, otherwise partially balanced
OverallVerdictLaw ==
  Has(nutrition) =>
    Get(nutrition).evaluation.overall
      = IF LabelCount("low") > 2 THEN "deficient"
        ELSE IF LabelCount("high") > 2 THEN "excessive"
        ELSE IF /\ Get(nutrition).evaluation.protein = "sufficient"
                /\ Get(nutrition).evaluation.fat = "adequate"
          THEN "balanced"
        ELSE "partiallyBalanced"

\* a summary with two low labels, which is not enough for deficient
OverallVerdictLawWitness ==
  /\ pc = "done"
  /\ Has(nutrition)
  /\ LabelCount("low") = 2
  /\ Get(nutrition).evaluation.overall = "partiallyBalanced"

\* the nutrients among calories, protein and fat that are out of band
OutOfBand == {n \in Classified : Get(nutrition).evaluation[n] \in {"low", "high"}}

\* C22: the suggestions hold one suggestion for each of calories, protein
\* and fat that is out of band, and the default suggestion is there if and
\* only if none of the three is out of band
SuggestionsLaw ==
  Has(nutrition) =>
    LET suggestions == Get(nutrition).suggestions
        default     == \E k \in 1..Len(suggestions) : suggestions[k] = "balancedKeepItUp"
    IN /\ default <=> OutOfBand = {}
       /\ ~default => Len(suggestions) = Cardinality(OutOfBand)

SixCategories == {"vegetable", "meat", "seafood", "condiment", "stapleFood", "other"}

\* where the shopping list holds a name: category and position
Placements(name) ==
  {place \in UNION {{<<c, k>> : k \in 1..Len(Get(shopping).list[c])} :
                      c \in DOMAIN Get(shopping).list} :
     Get(shopping).list[place[1]][place[2]].name = name}

\* C23: every distinct ingredient name of the selected recipes is in exactly
\* one of the six category lists of the shopping list, exactly once
OnePlacePerName ==
  Has(shopping) =>
    /\ DOMAIN Get(shopping).list = SixCategories
    /\ \A name \in IngredientNames : Cardinality(Placements(name)) = 1

\* a shopping list with entries in three categories and a name that two
\* recipes of the menu share
OnePlacePerNameWitness ==
  /\ Has(shopping)
  /\ Cardinality({c \in SixCategories : Len(Get(shopping).list[c]) > 0}) >= 3
  /\ \E i, j \in 1..Len(Selected) :
       /\ i < j
       /\ Has(Selected[i].adjustedIngredients)
       /\ Has(Selected[j].adjustedIngredients)
       /\ \E a \in 1..Len(Get(Selected[i].adjustedIngredients)) :
            \E b \in 1..Len(Get(Selected[j].adjustedIngredients)) :
              /\ Get(Selected[i].adjustedIngredients)[a].name
                   = Get(Selected[j].adjustedIngredients)[b].name
              /\ Get(Selected[i].adjustedIngredients)[a].unit
                   # Get(Selected[j].adjustedIngredients)[b].unit

\* the tables with a keyword that is a substring of the name
MatchingTables(name) ==
  {t \in 1..Len(KeywordTables) :
     \E k \in 1..Len(KeywordTables[t].keywords) :
       \E at \in 1..Len(name) :
         /\ at + Len(KeywordTables[t].keywords[k]) - 1 <= Len(name)
         /\ \A d \in 1..Len(KeywordTables[t].keywords[k]) :
              name[at + d - 1] = KeywordTables[t].keywords[k][d]}

\* C24: the tables are checked in the order vegetable, meat, seafood,
\* condiment, staple; an entry's category is that of the first table with a
\* keyword that is a substring of its name, and other when no table has one
CategorizationOrder ==
  Has(shopping) =>
    /\ [t \in 1..Len(KeywordTables) |-> KeywordTables[t].category]
         = <<"vegetable", "meat", "seafood", "condiment", "stapleFood">>
    /\ \A c \in SixCategories :
         \A k \in 1..Len(Get(shopping).list[c]) :
           LET hits == MatchingTables(Get(shopping).list[c][k].name)
           IN IF hits = {} THEN c = "other"
              ELSE \E t \in hits : /\ \A u \in hits : t <= u
                                   /\ c = KeywordTables[t].category

\* a shopping list with a name that matches the keywords of two tables, in
\* the list of the earlier one, and with a name that matches none
CategorizationOrderWitness ==
  /\ Has(shopping)
  /\ \E c \in SixCategories :
       \E k \in 1..Len(Get(shopping).list[c]) :
         Cardinality(MatchingTables(Get(shopping).list[c][k].name)) = 2
  /\ \E k \in 1..Len(Get(shopping).list.other) :
       MatchingTables(Get(shopping).list.other[k].name) = {}

\* the scaled entries of the menu under a name, in the order of the menu
Occurrences(name) ==
  LET Named(ingredient) == ingredient.name = name
  IN SelectSeq(AllAdjusted(Selected, 1), Named)

\* the sum of the first k scaled quantities
RECURSIVE QuantitySum(_, _)
QuantitySum(occurrences, k) ==
  IF k = 0 THEN FromNat(0)
  ELSE FAdd(QuantitySum(occurrences, k - 1), occurrences[k].adjustedAmount)

\* C25: the quantity of a shopping-list entry is the sum of the scaled
\* quantities of its name over the selected recipes, rounded to two
\* decimals, and its unit is that of the name's first occurrence in the
\* order of the menu (the word for "as needed" where that one names none)
QuantityAndUnit ==
  Has(shopping) =>
    \A c \in SixCategories :
      \A k \in 1..Len(Get(shopping).list[c]) :
        LET entry == Get(shopping).list[c][k]
            occurrences == Occurrences(entry.name)
        IN /\ entry.amount
                = FDivNat(Round(FMulNat(QuantitySum(occurrences, Len(occurrences)), 100)),
                          100)
           /\ entry.unit = IF occurrences[1].unit = "" THEN "asNeeded"
                           ELSE occurrences[1].unit

\* an entry whose name occurs twice in the menu, with two units
QuantityAndUnitWitness ==
  /\ Has(shopping)
  /\ \E c \in SixCategories :
       \E k \in 1..Len(Get(shopping).list[c]) :
         LET entry == Get(shopping).list[c][k]
             occurrences == Occurrences(entry.name)
         IN /\ Len(occurrences) = 2
            /\ occurrences[1].unit # occurrences[2].unit
            /\ entry.unit = occurrences[1].unit
            /\ FLess(occurrences[1].adjustedAmount, entry.amount)
            /\ FLess(occurrences[2].adjustedAmount, entry.amount)

\* C26: for every seasoning entry of a selected recipe, the recipe of the
\* menu carries a scaled entry of that name whose quantity is
\* round(quantity * partySize / baseServings) to one decimal place
SeasoningsScaled ==
  \A i \in 1..Len(Selected) :
    (/\ Has(Selected[i].recipe.servings)
     /\ Has(Get(Selected[i].recipe.servings).seasonings)) =>
      LET servings == Get(Selected[i].recipe.servings)
          seasonings == Get(servings.seasonings)
      IN \A j \in 1..Len(seasonings) :
           /\ Has(Selected[i].adjustedIngredients)
           /\ \E k \in 1..Len(Get(Selected[i].adjustedIngredients)) :
                LET scaled == Get(Selected[i].adjustedIngredients)[k]
                IN /\ scaled.name = seasonings[j].name
                   /\ scaled.adjustedAmount
                        = Tenths(RoundedTenths(seasonings[j].amount, params.people,
                                               Get(servings.basePeople)))

\* C27: within each category of the shopping list, no entry's name collates
\* before the name of the entry in front of it
SortedByName ==
  Has(shopping) =>
    \A c \in SixCategories :
      \A k \in 1..(Len(Get(shopping).list[c]) - 1) :
        ~CollatesBefore(Get(shopping).list[c][k + 1].name, Get(shopping).list[c][k].name)

\* where the menu first names an ingredient
FirstNamedAt(name) ==
  CHOOSE at \in 1..Len(AllAdjusted(Selected, 1)) :
    /\ AllAdjusted(Selected, 1)[at].name = name
    /\ \A before \in 1..(at - 1) : AllAdjusted(Selected, 1)[before].name # name

\* a category with an entry that the menu names after the entry behind it
SortedByNameWitness ==
  /\ Has(shopping)
  /\ \E c \in SixCategories :
       \E j, k \in 1..Len(Get(shopping).list[c]) :
         /\ j < k
         /\ FirstNamedAt(Get(shopping).list[c][k].name)
              < FirstNamedAt(Get(shopping).list[c][j].name)

HasTip(tip) ==
  \E k \in 1..Len(Get(shopping).tips) : Get(shopping).tips[k] = tip

\* C28: the tip about buying vegetables fresh is given only if the vegetable
\* list of the shopping list holds an entry
VegetableTipOnlyWithVegetables ==
  (Has(shopping) /\ HasTip("vegetablesFresh")) => Len(Get(shopping).list.vegetable) > 0

\* a shopping list with the tip about vegetables
VegetableTipOnlyWithVegetablesWitness ==
  /\ Has(shopping)
  /\ HasTip("vegetablesFresh")
  /\ Len(Get(shopping).list.vegetable) > 0

\* the sum of the counts of a set of categories
RECURSIVE CountSum(_, _)
CountSum(counts, categories) ==
  IF categories = {} THEN 0
  ELSE LET c == CHOOSE d \in categories : TRUE
       IN counts[c] + CountSum(counts, categories \ {c})

\* C29: the per-category counts of the shopping list sum to its total item
\* count, and a category has a count if and only if its list holds an entry
CountsAddUp ==
  Has(shopping) =>
    LET counts == Get(shopping).stats.categoryStats
    IN /\ CountSum(counts, DOMAIN counts) = Get(shopping).stats.totalItems
       /\ DOMAIN counts = {c \in SixCategories : Len(Get(shopping).list[c]) > 0}
       /\ \A c \in DOMAIN counts : counts[c] = Len(Get(shopping).list[c])

\* a shopping list with counts for three categories or more and none for
\* another
CountsAddUpWitness ==
  /\ Has(shopping)
  /\ Cardinality(DOMAIN Get(shopping).stats.categoryStats) >= 3
  /\ DOMAIN Get(shopping).stats.categoryStats # SixCategories
  /\ Get(shopping).stats.totalItems > Cardinality(DOMAIN Get(shopping).stats.categoryStats)

Holds(recipes, recipe) == \E k \in 1..Len(recipes) : recipes[k] = recipe

\* C30: the result of the filters with the difficulty predicate disabled
\* holds every recipe of the strict result, so the recipes recommend goes on
\* with after relaxing include every recipe that passed the strict filters
RelaxationMonotone ==
  pc \in {"calculate", "generate", "respond"} =>
    \A k \in 1..Len(StrictResult) :
      /\ Holds(RelaxedResult, StrictResult[k])
      /\ relaxed => Holds(filtered, StrictResult[k])

\* a relaxation that kept the recipes of the strict result and added others
RelaxationMonotoneWitness ==
  /\ pc = "calculate"
  /\ relaxed
  /\ Len(StrictResult) > 0
  /\ Len(filtered) > Len(StrictResult)
  /\ \A k \in 1..Len(StrictResult) : Holds(filtered, StrictResult[k])

====
